---- MODULE Spec2Model ----
(***************************************************************************)
(* Model of tools/icu4x-segmenter/src/lib.rs: the wasm binding             *)
(*                                                                         *)
(*     pub fn line_break_points(text: &str) -> Vec<u32>                    *)
(*                                                                         *)
(* The function constructs a LineSegmenter, creates an empty vector,       *)
(* iterates over seg.segment_str(text) and pushes every yielded offset,    *)
(* cast to u32, onto the vector, which it returns.                         *)
(*                                                                         *)
(* The Unicode line breaking itself is done by the icu_segmenter crate,    *)
(* whose code is not part of this repository.  The model therefore does    *)
(* not say WHICH offsets the segmenter yields for a text: a text is        *)
(* represented by the sequence of usize offsets that segment_str yields    *)
(* for it (field `breaks`), and that sequence is drawn from all bounded    *)
(* sequences of offsets.  The segmenter reads the text through &str and    *)
(* itself through &self, so equal texts yield equal sequences.             *)
(*                                                                         *)
(* A usize is kept as its two 32-bit halves, [hi, lo], so that the cast    *)
(* `idx as u32` (truncation to the low 32 bits) is modelled as what it     *)
(* does.  On a 32-bit target (wasm32) hi is always 0.                      *)
(***************************************************************************)
EXTENDS Integers, Sequences, FiniteSets, TLC

\* ------------------------------------------------------------ bounds
\* Longest sequence of offsets the segmenter yields for one text.
MaxYield == 2
\* Largest value of the upper 32 bits of a yielded usize.
MaxHi == 1
\* Largest value of the lower 32 bits of a yielded usize.
MaxLo == 1
\* Number of callers (threads, or re-entrant host calls) of the function.
NumCallers == 2
\* Number of calls of line_break_points made in one run.
MaxCalls == 3

\* ------------------------------------------------------------ data
Callers == 1..NumCallers

\* usize on a 64-bit target: hi * 2^32 + lo.
Usize == [hi : 0..MaxHi, lo : 0..MaxLo]

\* Sequences of offsets of length 0..MaxYield.
YieldSeqs == UNION {[1..n -> Usize] : n \in 0..MaxYield}

\* A text, seen through the only thing the function observes of it: the
\* offsets segment_str yields for it.
Texts == [breaks : YieldSeqs]

RECURSIVE Increasing(_)
Increasing(s) ==
    IF Len(s) <= 1 THEN TRUE
    ELSE /\ s[1].lo < s[2].lo
         /\ Increasing(Tail(s))

\* Texts shorter than 2^32 bytes whose offsets come in strictly increasing
\* order.
SmallTexts ==
    {t \in Texts : /\ \A i \in 1..Len(t.breaks) : t.breaks[i].hi = 0
                   /\ Increasing(t.breaks)}

NoText == [breaks |-> <<>>]
NoIter == [yields |-> <<>>, pos |-> 0]
None == [set |-> FALSE, text |-> NoText, result |-> <<>>]

VARIABLES
    pc,            \* pc[c]: where caller c is in line_break_points
    text,          \* text[c]: the argument of c's call
    seg,           \* seg[c]: TRUE when c's local `seg` holds a LineSegmenter
    iter,          \* iter[c]: the iterator seg.segment_str(text) of c's loop
    out,           \* out[c]: c's local vector `out`; after the return, the
                   \*         vector the host received
    newAutoCalls,  \* number of LineSegmenter::new_auto() calls made so far
    calls,         \* number of line_break_points calls made so far
    remembered     \* a result the host kept, with the text it was for

vars == <<pc, text, seg, iter, out, newAutoCalls, calls, remembered>>

TypeOK ==
    /\ pc \in [Callers -> {"idle", "new_auto", "vec_new", "segment_str",
                           "loop", "returned"}]
    /\ text \in [Callers -> Texts]
    /\ seg \in [Callers -> BOOLEAN]
    /\ \A c \in Callers : iter[c].pos \in 0..Len(iter[c].yields)
    /\ \A c \in Callers : out[c] \in Seq(0..MaxLo)
    /\ newAutoCalls \in 0..MaxCalls
    /\ calls \in 0..MaxCalls

Init ==
    /\ pc = [c \in Callers |-> "idle"]
    /\ text = [c \in Callers |-> NoText]
    /\ seg = [c \in Callers |-> FALSE]
    /\ iter = [c \in Callers |-> NoIter]
    /\ out = [c \in Callers |-> <<>>]
    /\ newAutoCalls = 0
    /\ calls = 0
    /\ remembered = None

\* ------------------------------------------------------------ helpers
\* `idx as u32`: the low 32 bits of idx.
AsU32(idx) == idx.lo

\* A u32 read back as a usize.
Widen(u) == [hi |-> 0, lo |-> u]

\* seg.segment_str(text): a fresh iterator over the offsets of text.
segment_str(t) == [yields |-> t.breaks, pos |-> 0]

\* Iterator::next() has an element to give.
HasNext(it) == it.pos < Len(it.yields)

\* The element Iterator::next() gives.
NextItem(it) == it.yields[it.pos + 1]

\* The `for idx in ... { out.push(idx as u32) }` loop run to its end from
\* iterator `it` with vector `acc`.
RECURSIVE RunLoop(_, _)
RunLoop(it, acc) ==
    IF HasNext(it)
    THEN RunLoop([it EXCEPT !.pos = it.pos + 1], Append(acc, AsU32(NextItem(it))))
    ELSE acc

\* line_break_points(t) run on its own, from entry to return.
line_break_points(t) == RunLoop(segment_str(t), <<>>)

\* ------------------------------------------------------------ actions
\* The host calls line_break_points(t) on caller c.
Call(c, t) ==
    /\ pc[c] = "idle"
    /\ calls < MaxCalls
    /\ pc' = [pc EXCEPT ![c] = "new_auto"]
    /\ text' = [text EXCEPT ![c] = t]
    /\ calls' = calls + 1
    /\ UNCHANGED <<seg, iter, out, newAutoCalls, remembered>>

\* A variant that builds the segmenter on the first call only and reuses it.
NewAutoOnce(c) ==
    /\ pc[c] = "new_auto"
    /\ pc' = [pc EXCEPT ![c] = "vec_new"]
    /\ seg' = [seg EXCEPT ![c] = TRUE]
    /\ newAutoCalls' = IF newAutoCalls = 0 THEN 1 ELSE newAutoCalls
    /\ UNCHANGED <<text, iter, out, calls, remembered>>

\* let seg = LineSegmenter::new_auto();
NewAuto(c) ==
    /\ pc[c] = "new_auto"
    /\ pc' = [pc EXCEPT ![c] = "vec_new"]
    /\ seg' = [seg EXCEPT ![c] = TRUE]
    /\ newAutoCalls' = newAutoCalls + 1
    /\ UNCHANGED <<text, iter, out, calls, remembered>>

\* A variant that reuses the caller's previous vector without clearing it.
VecNewReuse(c) ==
    /\ pc[c] = "vec_new"
    /\ pc' = [pc EXCEPT ![c] = "segment_str"]
    /\ UNCHANGED <<text, seg, iter, out, newAutoCalls, calls, remembered>>

\* let mut out = Vec::new();
VecNew(c) ==
    /\ pc[c] = "vec_new"
    /\ pc' = [pc EXCEPT ![c] = "segment_str"]
    /\ out' = [out EXCEPT ![c] = <<>>]
    /\ UNCHANGED <<text, seg, iter, newAutoCalls, calls, remembered>>

\* seg.segment_str(text): the loop's iterator is created.
SegmentStr(c) ==
    /\ pc[c] = "segment_str"
    /\ seg[c]
    /\ pc' = [pc EXCEPT ![c] = "loop"]
    /\ iter' = [iter EXCEPT ![c] = segment_str(text[c])]
    /\ UNCHANGED <<text, seg, out, newAutoCalls, calls, remembered>>

\* A variant whose vector is one vector shared by all callers.
PushShared(c) ==
    /\ pc[c] = "loop"
    /\ HasNext(iter[c])
    /\ out' = [d \in Callers |-> Append(out[d], AsU32(NextItem(iter[c])))]
    /\ iter' = [iter EXCEPT ![c].pos = @ + 1]
    /\ UNCHANGED <<pc, text, seg, newAutoCalls, calls, remembered>>

\* A variant whose cast saturates instead of truncating.
PushSaturating(c) ==
    /\ pc[c] = "loop"
    /\ HasNext(iter[c])
    /\ out' = [out EXCEPT ![c] =
                 Append(@, IF NextItem(iter[c]).hi > 0 THEN MaxLo
                           ELSE NextItem(iter[c]).lo)]
    /\ iter' = [iter EXCEPT ![c].pos = @ + 1]
    /\ UNCHANGED <<pc, text, seg, newAutoCalls, calls, remembered>>

\* One iteration of the loop: next() gives Some(idx); out.push(idx as u32).
Push(c) ==
    /\ pc[c] = "loop"
    /\ HasNext(iter[c])
    /\ out' = [out EXCEPT ![c] = Append(@, AsU32(NextItem(iter[c])))]
    /\ iter' = [iter EXCEPT ![c].pos = @ + 1]
    /\ UNCHANGED <<pc, text, seg, newAutoCalls, calls, remembered>>

\* next() gives None: the loop ends and `out` is returned; the iterator and
\* the segmenter are dropped.
Return(c) ==
    /\ pc[c] = "loop"
    /\ ~HasNext(iter[c])
    /\ pc' = [pc EXCEPT ![c] = "returned"]
    /\ seg' = [seg EXCEPT ![c] = FALSE]
    /\ iter' = [iter EXCEPT ![c] = NoIter]
    /\ UNCHANGED <<text, out, newAutoCalls, calls, remembered>>

\* The host takes the returned vector and keeps it, with its text, to compare
\* later results with.
Collect(c) ==
    /\ pc[c] = "returned"
    /\ ~remembered.set
    /\ remembered' = [set |-> TRUE, text |-> text[c], result |-> out[c]]
    /\ pc' = [pc EXCEPT ![c] = "idle"]
    /\ text' = [text EXCEPT ![c] = NoText]
    /\ UNCHANGED <<seg, iter, out, newAutoCalls, calls>>

\* The host takes the returned vector and does not keep it.
Discard(c) ==
    /\ pc[c] = "returned"
    /\ pc' = [pc EXCEPT ![c] = "idle"]
    /\ text' = [text EXCEPT ![c] = NoText]
    /\ UNCHANGED <<seg, iter, out, newAutoCalls, calls, remembered>>

\* ------------------------------------------------------------ specifications
\* Several callers, their steps interleaved in any order, on small texts.
Next ==
    \E c \in Callers :
        \/ \E t \in SmallTexts : Call(c, t)
        \/ NewAuto(c)
        \/ VecNew(c)
        \/ SegmentStr(c)
        \/ Push(c)
        \/ Return(c)
        \/ Collect(c)
        \/ Discard(c)

Spec == Init /\ [][Next]_vars

\* One caller, one call after another, on every text: offsets in any order,
\* repeated, and at or above 2^32.
NextSeq ==
    \/ \E t \in Texts : Call(1, t)
    \/ NewAuto(1)
    \/ VecNew(1)
    \/ SegmentStr(1)
    \/ Push(1)
    \/ Return(1)
    \/ Discard(1)

SpecSeq == Init /\ [][NextSeq]_vars

\* ------------------------------------------------------------ claims
\* C7: line_break_points is deterministic across calls.  Whenever a call on
\* a text has returned and the host holds the result of an earlier call on
\* the same text (whatever calls were made in between, on whatever texts),
\* the two results are the same sequence of offsets.
C7_SameTextSameResult ==
    \A c \in Callers :
        (/\ pc[c] = "returned"
         /\ remembered.set
         /\ remembered.text = text[c])
        => out[c] = remembered.result

\* A third call has returned two offsets for the text of the remembered
\* first call, while another caller's call on a different text, made in
\* between, has returned too.
C7_Witness ==
    \E c, d \in Callers :
        /\ c # d
        /\ calls = 3
        /\ remembered.set
        /\ pc[c] = "returned"
        /\ remembered.text = text[c]
        /\ Len(out[c]) >= 2
        /\ pc[d] = "returned"
        /\ text[d] # text[c]
        /\ Len(out[d]) >= 1

\* C8: calls whose loop steps are interleaved do not disturb each other.  At
\* every point of a call's loop, finishing the loop from the call's own
\* iterator and vector gives the result the call gives when run alone, and
\* a call that has returned has returned exactly that result, whatever the
\* other callers did in the meantime.
C8_InterleavedAsAlone ==
    \A c \in Callers :
        /\ pc[c] = "loop"
            => RunLoop(iter[c], out[c]) = line_break_points(text[c])
        /\ pc[c] = "returned"
            => out[c] = line_break_points(text[c])

\* Two calls on different texts are both inside their loops, each with an
\* offset of its own text pushed and neither returned yet, and one of them
\* with an offset still to come: their loop steps are interleaved.
C8_Witness ==
    \E c, d \in Callers :
        /\ c # d
        /\ pc[c] = "loop" /\ pc[d] = "loop"
        /\ text[c] # text[d]
        /\ Len(out[c]) = 1 /\ HasNext(iter[c])
        /\ Len(out[d]) = 1
        /\ out[c] # out[d]

\* C9, as the claim states it: the segmenter is constructed once per process
\* and shared by all calls, so new_auto() runs at most once however many
\* calls are made.
C9_ConstructedOncePerProcess ==
    newAutoCalls <= 1

\* C9, amended: the segmenter is constructed inside every call, once per
\* call.  Nothing is constructed before the first call; every call that has
\* passed its first statement has run new_auto() once; a segmenter is held
\* by exactly the calls between that statement and their return, each its
\* own.
C9_ConstructedInEachCall ==
    /\ newAutoCalls = calls - Cardinality({c \in Callers : pc[c] = "new_auto"})
    /\ calls = 0 => newAutoCalls = 0
    /\ \A c \in Callers :
           seg[c] <=> pc[c] \in {"vec_new", "segment_str", "loop"}

\* Two calls are in progress at once, each holding a segmenter it
\* constructed itself.
C9_Witness ==
    \E c, d \in Callers :
        /\ c # d
        /\ seg[c] /\ seg[d]
        /\ pc[c] = "loop" /\ pc[d] = "loop"
        /\ newAutoCalls = 2

\* C10: line_break_points adds no logic of its own.  The returned vector has
\* as many elements as segment_str(text) yields, in the same order; each
\* element is the yielded offset modulo 2^32, hence the offset itself when
\* the offset is below 2^32.  During the loop the vector is the same image
\* of the offsets yielded so far.
C10_ReturnsWhatSegmenterYields ==
    \A c \in Callers :
        LET yields == segment_str(text[c]).yields
            n == IF pc[c] = "returned" THEN Len(yields) ELSE iter[c].pos
        IN  pc[c] \in {"loop", "returned"} =>
                /\ Len(out[c]) = n
                /\ \A i \in 1..n :
                       /\ out[c][i] = yields[i].lo
                       /\ yields[i].hi = 0 => Widen(out[c][i]) = yields[i]

\* A call has returned two offsets for a text whose first offset is 2^32 or
\* more and whose second offset is below 2^32 and smaller in its low half:
\* the yielded offsets are out of order and one of them does not fit a u32.
C10_Witness ==
    /\ pc[1] = "returned"
    /\ Len(out[1]) = 2
    /\ text[1].breaks[1].hi > 0
    /\ text[1].breaks[2].hi = 0
    /\ text[1].breaks[1].lo > text[1].breaks[2].lo

====
